---- MODULE Spec2Model ----
(***************************************************************************)
(* Model of alcu_welding_step1_query.py: the Streamlit script that queries *)
(* arXiv, filters the results, downloads the PDFs one by one and shows a   *)
(* table, a CSV export and a summary.                                      *)
(*                                                                         *)
(* Text is modelled as a sequence of tokens (a token is a run of           *)
(* characters); the separators the code splits, joins, strips or quotes on *)
(* ("/", ",", the double quote, every whitespace character) are tokens of  *)
(* their own.                                                              *)
(***************************************************************************)
EXTENDS Integers, Sequences, FiniteSets, TLC

VARIABLES pc, query, categories, max_results, start_year, end_year,
          remote, idx, papers, di, messages, table, export, summary,
          searchCalls, downloadCalls, processed, writes, succeeded, raised,
          search_button, dirExists

vars == <<pc, query, categories, max_results, start_year, end_year,
          remote, idx, papers, di, messages, table, export, summary,
          searchCalls, downloadCalls, processed, writes, succeeded, raised,
          search_button, dirExists>>

(* ------------------------------ bounds --------------------------------- *)

\* largest value of the max_results slider the model draws (the slider goes to 50)
MaxResultsBound == 2

\* longest remote result sequence the model draws
MaxRemote == 3

(* ------------------------- program constants --------------------------- *)

SliderMin == 1
SliderMax == 50
SliderDefault == 10
StartYearDefault == 2015
MinYear == 1900
AbstractBudget == 200

pdf_dir == <<"pdfs">>
NotDownloaded == <<"Not downloaded">>
NoPdfUrl == <<"No PDF URL">>

DefaultQuery == <<"aluminum", " ", "copper", " ", "dissimilar", " ", "welding",
                  " ", "process", " ", "parameters">>

default_categories == {"cond-mat.mtrl-sci", "physics.app-ph"}
extra_categories == {"physics.optics", "cond-mat.other"}
CategoryOptions == default_categories \cup extra_categories

DisplayColumns == <<"id", "title", "year", "categories", "abstract", "download_status">>

(* --------------------------- text helpers ------------------------------ *)

Min(a, b) == IF a <= b THEN a ELSE b

\* s in t: t holds the tokens of s contiguously (Python's substring test)
Contains(t, s) ==
    \E i \in 0..(Len(t) - Len(s)) : SubSeq(t, i + 1, i + Len(s)) = s

\* the characters str.strip() removes, each a token of its own: the 29
\* characters c with c.isspace(). A character that a string of this module
\* cannot hold is written as the token "U+hhhh" naming its code point.
Whitespace ==
    { "\t", "\n", "U+000B", "\f", "\r",
      "U+001C", "U+001D", "U+001E", "U+001F", " ",
      "U+0085", "U+00A0", "U+1680",
      "U+2000", "U+2001", "U+2002", "U+2003", "U+2004", "U+2005", "U+2006",
      "U+2007", "U+2008", "U+2009", "U+200A",
      "U+2028", "U+2029", "U+202F", "U+205F", "U+3000" }

RECURSIVE LStrip(_)
LStrip(s) == IF s # <<>> /\ Head(s) \in Whitespace THEN LStrip(Tail(s)) ELSE s

RECURSIVE RStrip(_)
RStrip(s) ==
    IF s # <<>> /\ s[Len(s)] \in Whitespace THEN RStrip(SubSeq(s, 1, Len(s) - 1)) ELSE s

\* str.strip()
Strip(s) == RStrip(LStrip(s))

\* s.split(sep): the segments between the sep tokens, in order
RECURSIVE Split(_, _)
Split(s, sep) ==
    IF \A i \in 1..Len(s) : s[i] # sep
    THEN <<s>>
    ELSE LET k == CHOOSE i \in 1..Len(s) : s[i] = sep /\ \A j \in 1..(i - 1) : s[j] # sep
         IN <<SubSeq(s, 1, k - 1)>> \o Split(SubSeq(s, k + 1, Len(s)), sep)

\* sep.join(parts)
RECURSIVE Join(_, _)
Join(parts, sep) ==
    IF parts = <<>> THEN <<>>
    ELSE IF Len(parts) = 1 THEN parts[1]
    ELSE parts[1] \o sep \o Join(Tail(parts), sep)

\* entry_id.split('/')[-1]
PaperId(entry_id) == LET segs == Split(entry_id, "/") IN segs[Len(segs)]

\* summary[:200] + "..." if len(summary) > 200 else summary
Abstract(text) ==
    IF Len(text) > AbstractBudget
    THEN SubSeq(text, 1, AbstractBudget) \o <<"...">>
    ELSE text

\* ", ".join(result.categories)
JoinCategories(cats) == Join([i \in 1..Len(cats) |-> <<cats[i]>>], <<",", " ">>)

(* ----------------------- the remote source ----------------------------- *)

LongSummary == [i \in 1..(AbstractBudget + 1) |-> "x"]

\* raw results the remote source can return (entry ids are unique at the source)
RawPool ==
    { [entry_id |-> <<"http:", "/", "/", "arxiv.org", "/", "abs", "/", "2101.00001v1">>,
       title |-> <<"Laser welding of Al", ",", " ", "Cu">>,
       year |-> 2021,
       categories |-> <<"cond-mat.mtrl-sci">>,
       summary |-> <<"Keyhole welding.">>,
       pdf_url |-> <<"http://arxiv.org/pdf/2101.00001v1">>],
      [entry_id |-> <<"http:", "/", "/", "arxiv.org", "/", "abs", "/", "cond-mat", "/", "0102001v1">>,
       title |-> <<"Intermetallics in ", "\"", "Al-Cu", "\"", " joints">>,
       year |-> 2001,
       categories |-> <<"cond-mat.mtrl-sci", "physics.optics">>,
       summary |-> <<"Phase growth.">>,
       pdf_url |-> <<"http://arxiv.org/pdf/cond-mat/0102001v1">>],
      [entry_id |-> <<"http:", "/", "/", "arxiv.org", "/", "abs", "/", "physics", "/", "0102001v1">>,
       title |-> <<"Laser absorption of copper">>,
       year |-> 2001,
       categories |-> <<"physics.optics">>,
       summary |-> <<"Absorptivity.">>,
       pdf_url |-> <<"http://arxiv.org/pdf/physics/0102001v1">>],
      [entry_id |-> <<"http:", "/", "/", "arxiv.org", "/", "abs", "/", "2105.00002v2">>,
       title |-> <<"Weld seam", "\n", "classification">>,
       year |-> 2021,
       categories |-> <<"cs.LG", "physics.app-ph">>,
       summary |-> LongSummary,
       pdf_url |-> <<>>] }

\* the sequences of raw results client.results(search) can yield for a search
\* (how the arxiv package uses the max_results of the Search is its own matter:
\* every sequence up to the bound is drawn)
RemoteSeqs ==
    UNION { { s \in [1..n -> RawPool] : \A i, j \in 1..n : i # j => s[i] # s[j] }
            : n \in 0..MaxRemote }

(* ------------------------------ Filter --------------------------------- *)

\* mutant: the upper end of the year range is not tested
Accept_NoUpperYear(result, cats, sy, ey) ==
    /\ \E cat \in cats : \E i \in 1..Len(result.categories) : result.categories[i] = cat
    /\ sy <= result.year

\* any(cat in result.categories for cat in categories)
\*   and start_year <= result.published.year <= end_year
Accept(result, cats, sy, ey) ==
    /\ \E cat \in cats : \E i \in 1..Len(result.categories) : result.categories[i] = cat
    /\ sy <= result.year
    /\ result.year <= ey

\* the dict appended for an accepted result
MakePaper(result) ==
    [id |-> PaperId(result.entry_id),
     title |-> result.title,
     year |-> result.year,
     categories |-> JoinCategories(result.categories),
     abstract |-> Abstract(result.summary),
     pdf_url |-> result.pdf_url,
     download_status |-> NotDownloaded]

\* one pass of the for-loop body up to the break test
LoopBody(ps, result, cats, sy, ey) ==
    IF Accept(result, cats, sy, ey) THEN Append(ps, MakePaper(result)) ELSE ps

\* if len(papers) >= max_results: break
BreakLoop(ps, maxres) == Len(ps) >= maxres

\* mutant: the except branch returns what was collected so far
OnSearchError_Partial(ps) == ps

\* what the except branch of query_arxiv returns
OnSearchError(ps) == <<>>

(* ---------------------------- validation ------------------------------- *)

\* mutant: the category check is missing from the chain
ValidationError_NoCategoryCheck(q, cats, sy, ey) ==
    IF Strip(q) = <<>> THEN <<"Please enter a valid query.">>
    ELSE IF sy > ey THEN <<"Start year must be less than or equal to end year.">>
    ELSE <<>>

\* the if / elif chain of the search handler: the error shown, or <<>> to go on
ValidationError(q, cats, sy, ey) ==
    IF Strip(q) = <<>> THEN <<"Please enter a valid query.">>
    ELSE IF cats = {} THEN <<"Please select at least one category.">>
    ELSE IF sy > ey THEN <<"Start year must be less than or equal to end year.">>
    ELSE <<>>

(* ----------------------------- Downloader ------------------------------ *)

\* f"{x:.1f}" for x = bytes / unit (unit a power of two, so x is exact and the
\* formatting rounds the true quotient half to even)
Format1f(bytes, unit) ==
    LET q == (bytes * 10) \div unit
        r == (bytes * 10) % unit
        tenths == IF 2 * r > unit \/ (2 * r = unit /\ q % 2 = 1) THEN q + 1 ELSE q
    IN <<ToString(tenths \div 10), ".", ToString(tenths % 10)>>

\* os.path.join(pdf_dir, f"{paper_id}.pdf")
PdfPath(paper_id) == pdf_dir \o <<"/">> \o paper_id \o <<".pdf">>

\* what urlretrieve can do: store the file, fail before the file is opened
\* (HTTPError with the server's reason phrase), or fail after a partial write
\* (ContentTooShortError, a URLError, whose text wraps the reason)
DownloadOutcomes ==
    { [ok |-> TRUE, wrote |-> TRUE, bytes |-> 1536, reason |-> <<>>],
      [ok |-> FALSE, wrote |-> FALSE, bytes |-> 0,
       reason |-> <<"HTTP Error ", "404", ": ", "Not Found">>],
      [ok |-> FALSE, wrote |-> FALSE, bytes |-> 0,
       reason |-> <<"HTTP Error ", "503", ": ", "Downloaded", " too many files">>],
      [ok |-> FALSE, wrote |-> TRUE, bytes |-> 0,
       reason |-> <<"<urlopen error ", "retrieval incomplete: got only ", "512",
                    " out of ", "1536", " bytes", ">">>] }

\* download_pdf: the status string it returns under an outcome of urlretrieve
download_pdf(pdf_url, paper_id, outcome) ==
    IF outcome.ok
    THEN <<"Downloaded", " (">> \o Format1f(outcome.bytes, 1024) \o <<" KB)">>
    ELSE <<"Failed: ">> \o outcome.reason

\* the body of the download loop for one paper: its new download_status
DownloadStatus(paper, outcome) ==
    IF paper.pdf_url # <<>>
    THEN download_pdf(paper.pdf_url, paper.id, outcome)
    ELSE NoPdfUrl

\* mutant: a failed download ends the loop
NextIndex_StopOnFailure(i, status, n) == IF Head(status) = "Failed: " THEN n ELSE i + 1

\* the download loop goes on to the next of the n papers whatever the status was
NextIndex(i, status, n) == i + 1

(* ----------------------------- ResultTable ----------------------------- *)

\* the columns of pd.DataFrame(papers): the keys of the paper dict, in order
DataFrameColumns ==
    <<"id", "title", "year", "categories", "abstract", "pdf_url", "download_status">>

\* the text of one cell
FieldText(p, c) ==
    CASE c = "id" -> p.id
      [] c = "title" -> p.title
      [] c = "year" -> <<ToString(p.year)>>
      [] c = "categories" -> p.categories
      [] c = "abstract" -> p.abstract
      [] c = "pdf_url" -> p.pdf_url
      [] c = "download_status" -> p.download_status

\* df[cols]: the rows restricted to the columns cols
Select(ps, cols) ==
    [columns |-> cols,
     rows |-> [i \in 1..Len(ps) |-> [k \in 1..Len(cols) |-> FieldText(ps[i], cols[k])]]]

RECURSIVE DoubleQuotes(_)
DoubleQuotes(f) ==
    IF f = <<>> THEN <<>>
    ELSE (IF Head(f) = "\"" THEN <<"\"", "\"">> ELSE <<Head(f)>>) \o DoubleQuotes(Tail(f))

\* csv writer, QUOTE_MINIMAL: a field holding the delimiter, the quote
\* character or a line break is quoted, quotes inside it doubled
CsvField(f) ==
    IF \E i \in 1..Len(f) : f[i] \in {",", "\"", "\n"}
    THEN <<"\"">> \o DoubleQuotes(f) \o <<"\"">>
    ELSE f

CsvLine(fields) ==
    Join([k \in 1..Len(fields) |-> CsvField(fields[k])], <<",">>) \o <<"\n">>

RECURSIVE CsvLines(_)
CsvLines(rows) == IF rows = <<>> THEN <<>> ELSE CsvLine(Head(rows)) \o CsvLines(Tail(rows))

\* frame.to_csv(index=False)
ToCsv(frame) ==
    CsvLine([k \in 1..Len(frame.columns) |-> <<frame.columns[k]>>]) \o CsvLines(frame.rows)

\* the columns of the exported frame: csv = df.to_csv(index=False) on the whole df
ExportColumns == DataFrameColumns

\* sum(1 for p in papers if "Downloaded" in p["download_status"])
CountDownloaded(ps) ==
    Cardinality({ i \in 1..Len(ps) : Contains(ps[i].download_status, <<"Downloaded">>) })

(* ----------------------------- Orchestrator ---------------------------- *)

\* datetime.now().year
current_year == 2026

YearChoices == {2001, 2021}

QueryInputs ==
    { <<>>, <<" ">>, <<"\t">>, <<"U+000B", "U+3000">>,
      <<" ", "Al-Cu welding", "U+00A0">> }

\* the values of the sidebar widgets when none was touched
WidgetDefaults ==
    [query |-> DefaultQuery, categories |-> default_categories,
     max_results |-> SliderDefault, start_year |-> StartYearDefault,
     end_year |-> current_year]

\* the values the sidebar widgets can hold: end_year has min_value = start_year
WidgetInputs ==
    { w \in [query : QueryInputs, categories : SUBSET CategoryOptions,
              max_results : SliderMin..Min(SliderMax, MaxResultsBound),
              start_year : { y \in YearChoices : MinYear <= y /\ y <= current_year },
              end_year : { y \in YearChoices : y <= current_year }]
        : w.start_year <= w.end_year }
    \cup {WidgetDefaults}

\* an exception text of the arxiv client
SearchErrors == { <<"Page request resulted in HTTP 503">> }

NoTable == [built |-> FALSE, columns |-> <<>>, rows |-> <<>>]
NoExport == [offered |-> FALSE, text |-> <<>>]
NoSummary == [shown |-> FALSE, found |-> 0, downloaded |-> 0]

\* mutant: the call passes the slider's upper end instead of its value
SearchLimit_SliderMax(maxres) == SliderMax

\* the max_results argument of the call query_arxiv(query, categories, max_results, ...)
SearchLimit(maxres) == maxres

\* mutant: the empty-list test is missing, the download stage always runs
NextStage_AlwaysDownload(ps) == "Downloading"

\* if not papers: ... else: ...
NextStage(ps) == IF ps = <<>> THEN "NoResults" ELSE "Downloading"

\* before the page is first loaded: nothing shown, the directory may exist
Init ==
    /\ pc = "Idle"
    /\ query = WidgetDefaults.query
    /\ categories = WidgetDefaults.categories
    /\ max_results = WidgetDefaults.max_results
    /\ start_year = WidgetDefaults.start_year
    /\ end_year = WidgetDefaults.end_year
    /\ remote = <<>>
    /\ idx = 0
    /\ papers = <<>>
    /\ di = 0
    /\ messages = <<>>
    /\ table = NoTable
    /\ export = NoExport
    /\ summary = NoSummary
    /\ searchCalls = 0
    /\ downloadCalls = <<>>
    /\ processed = <<>>
    /\ writes = <<>>
    /\ succeeded = {}
    /\ raised = FALSE
    /\ search_button = FALSE
    /\ dirExists \in BOOLEAN

\* a page load or widget interaction (re)runs the script from the top, also
\* while a run is under way: the page is cleared, every script variable is
\* rebuilt, and lines 17-19 create the directory if it is missing
Rerun ==
    /\ pc' = IF dirExists THEN "Sidebar" ELSE "DirCreated"
    /\ query' = WidgetDefaults.query
    /\ categories' = WidgetDefaults.categories
    /\ max_results' = WidgetDefaults.max_results
    /\ start_year' = WidgetDefaults.start_year
    /\ end_year' = WidgetDefaults.end_year
    /\ remote' = <<>>
    /\ idx' = 0
    /\ papers' = <<>>
    /\ di' = 0
    /\ messages' = <<>>
    /\ dirExists' = TRUE
    /\ table' = NoTable
    /\ export' = NoExport
    /\ summary' = NoSummary
    /\ searchCalls' = 0
    /\ downloadCalls' = <<>>
    /\ processed' = <<>>
    /\ writes' = <<>>
    /\ succeeded' = {}
    /\ raised' = FALSE
    /\ search_button' = FALSE

\* line 20: the directory was just made, the info about it is shown
CreatedInfo ==
    /\ pc = "DirCreated"
    /\ pc' = "Sidebar"
    /\ messages' = Append(messages, [kind |-> "info",
          text |-> <<"Created directory: ">> \o pdf_dir \o <<" for storing PDFs.">>])
    /\ UNCHANGED <<query, categories, max_results, start_year, end_year, remote, idx,
                   papers, di, table, export, summary, searchCalls, downloadCalls,
                   processed, writes, succeeded, raised, search_button, dirExists>>

\* lines 62-127 with search_button true: the sidebar widgets give the inputs
SearchButton ==
    /\ pc = "Sidebar"
    /\ pc' = "Validating"
    /\ \E w \in WidgetInputs :
          /\ query' = w.query
          /\ categories' = w.categories
          /\ max_results' = w.max_results
          /\ start_year' = w.start_year
          /\ end_year' = w.end_year
    /\ search_button' = TRUE
    /\ UNCHANGED <<remote, idx, papers, di, messages, table, export, summary,
                   searchCalls, downloadCalls, processed, writes, succeeded, raised,
                   dirExists>>

\* lines 62-127 and 191-192: the sidebar widgets give the inputs, the rerun was
\* not caused by the search button
NoButton ==
    /\ pc = "Sidebar"
    /\ pc' = "Idle"
    /\ \E w \in WidgetInputs :
          /\ query' = w.query
          /\ categories' = w.categories
          /\ max_results' = w.max_results
          /\ start_year' = w.start_year
          /\ end_year' = w.end_year
    /\ search_button' = FALSE
    /\ messages' = Append(messages, [kind |-> "info",
          text |-> <<"Use the sidebar to configure your search and click 'Search arXiv' to begin.">>])
    /\ UNCHANGED <<remote, idx, papers, di, table, export, summary, searchCalls,
                   downloadCalls, processed, writes, succeeded, raised, dirExists>>

\* lines 133-141: the validation chain; on success query_arxiv is entered
Validate ==
    /\ UNCHANGED <<search_button, dirExists>>
    /\ pc = "Validating"
    /\ LET err == ValidationError(query, categories, start_year, end_year)
       IN IF err # <<>>
          THEN /\ messages' = Append(messages, [kind |-> "error", text |-> err])
               /\ pc' = "Idle"
               /\ UNCHANGED <<remote, searchCalls>>
          ELSE /\ remote' \in RemoteSeqs
               /\ searchCalls' = searchCalls + 1
               /\ pc' = "Searching"
               /\ UNCHANGED messages
    /\ UNCHANGED <<query, categories, max_results, start_year, end_year, idx, papers,
                   di, table, export, summary, downloadCalls, processed, writes, succeeded, raised>>

\* one iteration of the for-loop of query_arxiv, with its break test
SearchStep ==
    /\ UNCHANGED <<search_button, dirExists>>
    /\ pc = "Searching"
    /\ idx < Len(remote)
    /\ LET ps == LoopBody(papers, remote[idx + 1],
                          categories, start_year, end_year)
       IN /\ papers' = ps
          /\ pc' = IF BreakLoop(ps, SearchLimit(max_results)) THEN "Searched" ELSE "Searching"
    /\ idx' = idx + 1
    /\ UNCHANGED <<query, categories, max_results, start_year, end_year, remote, di,
                   messages, table, export, summary, searchCalls, downloadCalls, processed,
                   writes, succeeded, raised>>

\* the generator is exhausted: return papers
SearchReturn ==
    /\ UNCHANGED <<search_button, dirExists>>
    /\ pc = "Searching"
    /\ idx = Len(remote)
    /\ pc' = "Searched"
    /\ UNCHANGED <<query, categories, max_results, start_year, end_year, remote, idx,
                   papers, di, messages, table, export, summary, searchCalls,
                   downloadCalls, processed, writes, succeeded, raised>>

\* an exception inside the try of query_arxiv (client, request or parsing)
SearchRaise ==
    /\ UNCHANGED <<search_button, dirExists>>
    /\ pc = "Searching"
    /\ papers' = OnSearchError(papers)
    /\ \E e \in SearchErrors :
          messages' = Append(messages, [kind |-> "error",
                                        text |-> <<"Error querying arXiv: ">> \o e])
    /\ raised' = TRUE
    /\ pc' = "Searched"
    /\ UNCHANGED <<query, categories, max_results, start_year, end_year, remote, idx,
                   di, table, export, summary, searchCalls, downloadCalls, processed, writes,
                   succeeded>>

\* lines 143-158: the branch on the returned list
AfterSearch ==
    /\ UNCHANGED <<search_button, dirExists>>
    /\ pc = "Searched"
    /\ IF NextStage(papers) = "NoResults"
       THEN /\ messages' = Append(messages, [kind |-> "warning",
                                  text |-> <<"No papers found matching your criteria.">>])
            /\ pc' = "Idle"
       ELSE /\ messages' = Append(messages, [kind |-> "success",
                                  text |-> <<"Found **", ToString(Len(papers)), "** papers matching your query!">>])
            /\ pc' = "Downloading"
    /\ di' = 0
    /\ UNCHANGED <<query, categories, max_results, start_year, end_year, remote, idx,
                   papers, table, export, summary, searchCalls, downloadCalls, processed, writes,
                   succeeded, raised>>

\* lines 159-166: one iteration of the download loop
DownloadStep ==
    /\ UNCHANGED <<search_button, dirExists>>
    /\ pc = "Downloading"
    /\ di < Len(papers)
    /\ \E outcome \in DownloadOutcomes :
         LET paper == papers[di + 1]
             called == paper.pdf_url # <<>>
             status == DownloadStatus(paper, outcome)
         IN /\ papers' = [papers EXCEPT ![di + 1].download_status = status]
            /\ downloadCalls' = IF called THEN Append(downloadCalls, di + 1) ELSE downloadCalls
            /\ writes' = IF called /\ outcome.wrote
                         THEN Append(writes, PdfPath(paper.id)) ELSE writes
            /\ succeeded' = IF called /\ outcome.ok THEN succeeded \cup {di + 1} ELSE succeeded
            /\ processed' = Append(processed, di + 1)
            /\ di' = NextIndex(di, status, Len(papers))
    /\ UNCHANGED <<pc, query, categories, max_results, start_year, end_year, remote,
                   idx, messages, table, export, summary, searchCalls, raised>>

\* lines 168-174: the download loop is over, the table is shown
ShowTable ==
    /\ pc = "Downloading"
    /\ di >= Len(papers)
    /\ table' = [built |-> TRUE] @@ Select(papers, DisplayColumns)
    /\ pc' = "Export"
    /\ UNCHANGED <<query, categories, max_results, start_year, end_year, remote, idx,
                   papers, di, messages, export, summary, searchCalls, downloadCalls,
                   processed, writes, succeeded, raised, search_button, dirExists>>

\* lines 176-183: the CSV text is made and the download button is shown
OfferExport ==
    /\ pc = "Export"
    /\ export' = [offered |-> TRUE, text |-> ToCsv(Select(papers, ExportColumns))]
    /\ pc' = "Summary"
    /\ UNCHANGED <<query, categories, max_results, start_year, end_year, remote, idx,
                   papers, di, messages, table, summary, searchCalls, downloadCalls,
                   processed, writes, succeeded, raised, search_button, dirExists>>

\* lines 185-187: the summary line
ShowSummary ==
    /\ pc = "Summary"
    /\ summary' = [shown |-> TRUE, found |-> Len(papers),
                   downloaded |-> CountDownloaded(papers)]
    /\ pc' = "Warning"
    /\ UNCHANGED <<query, categories, max_results, start_year, end_year, remote, idx,
                   papers, di, messages, table, export, searchCalls, downloadCalls,
                   processed, writes, succeeded, raised, search_button, dirExists>>

\* lines 188-189: the warning when a download is missing; the script ends
FailureWarning ==
    /\ pc = "Warning"
    /\ messages' = IF summary.downloaded < Len(papers)
                   THEN Append(messages, [kind |-> "warning",
                          text |-> <<"Some PDFs failed to download. Check 'download_status' for details.">>])
                   ELSE messages
    /\ pc' = "Idle"
    /\ UNCHANGED <<query, categories, max_results, start_year, end_year, remote, idx,
                   papers, di, table, export, summary, searchCalls, downloadCalls,
                   processed, writes, succeeded, raised, search_button, dirExists>>

Next ==
    \/ Rerun
    \/ CreatedInfo
    \/ SearchButton
    \/ NoButton
    \/ Validate
    \/ SearchStep
    \/ SearchReturn
    \/ SearchRaise
    \/ AfterSearch
    \/ DownloadStep
    \/ ShowTable
    \/ OfferExport
    \/ ShowSummary
    \/ FailureWarning

Spec == Init /\ [][Next]_vars

(* ------------------------- helpers of the claims ----------------------- *)

\* the tags of a record's joined categories text (split on the ", " separator)
TagsOf(text) ==
    LET segs == Split(text, ",")
    IN { Strip(segs[k])[1] : k \in { j \in 1..Len(segs) : Strip(segs[j]) # <<>> } }

\* the tags of a raw result
RawTags(result) == { result.categories[i] : i \in 1..Len(result.categories) }

\* raw result i of the remote sequence passes the requested filter
Passes(i) ==
    /\ RawTags(remote[i]) \cap categories # {}
    /\ start_year <= remote[i].year
    /\ remote[i].year <= end_year

\* a quoted field's text with its doubled quotes made single again
RECURSIVE Undouble(_)
Undouble(f) ==
    IF f = <<>> THEN <<>>
    ELSE IF Head(f) = "\"" /\ Len(f) >= 2 /\ f[2] = "\""
    THEN <<"\"">> \o Undouble(SubSeq(f, 3, Len(f)))
    ELSE <<Head(f)>> \o Undouble(Tail(f))

\* csv reader: the rows of a delimited text, each a sequence of fields; the
\* field starting at position i is read whole, then its delimiter
RECURSIVE ParseCsvFrom(_, _, _, _)
ParseCsvFrom(t, i, row, rows) ==
    IF i > Len(t) THEN rows
    ELSE LET quoted == t[i] = "\""
             \* the closing quote: the first quote after i that ends an odd run
             close == CHOOSE j \in (i + 1)..Len(t) :
                         /\ t[j] = "\""
                         /\ Cardinality({ k \in (i + 1)..j : t[k] = "\"" }) % 2 = 1
                         /\ (j = Len(t) \/ t[j + 1] # "\"")
                         /\ \A m \in (i + 1)..(j - 1) :
                               ~ /\ t[m] = "\""
                                 /\ Cardinality({ k \in (i + 1)..m : t[k] = "\"" }) % 2 = 1
                                 /\ t[m + 1] # "\""
             \* the delimiter that ends the field
             from == IF quoted THEN close + 1 ELSE i
             stop == CHOOSE j \in from..Len(t) :
                         /\ t[j] \in {",", "\n"}
                         /\ \A m \in from..(j - 1) : t[m] \notin {",", "\n"}
             field == IF quoted THEN Undouble(SubSeq(t, i + 1, close - 1))
                                ELSE SubSeq(t, i, stop - 1)
         IN IF t[stop] = ","
            THEN ParseCsvFrom(t, stop + 1, Append(row, field), rows)
            ELSE ParseCsvFrom(t, stop + 1, <<>>, Append(rows, Append(row, field)))

ParseCsv(t) == ParseCsvFrom(t, 1, <<>>, <<>>)

\* position of column c in a header row of one-token fields (0 if absent)
ColumnIndex(header, c) ==
    IF \E k \in 1..Len(header) : header[k] = <<c>>
    THEN CHOOSE k \in 1..Len(header) : header[k] = <<c>>
    ELSE 0

\* the ids of the data rows of a parsed export
ExportIds(parsed) ==
    LET k == ColumnIndex(parsed[1], "id")
    IN { parsed[r][k] : r \in 2..Len(parsed) }

TableIds == { table.rows[r][1] : r \in 1..Len(table.rows) }

IsDownloadedStatus(st) ==
    Len(st) = 6 /\ st[1] = "Downloaded" /\ st[2] = " (" /\ st[4] = "." /\ st[6] = " KB)"

IsFailedStatus(st) == Len(st) >= 1 /\ st[1] = "Failed: "

IsFinalStatus(st) == st = NoPdfUrl \/ IsDownloadedStatus(st) \/ IsFailedStatus(st)

ValidInputs ==
    /\ Strip(query) # <<>>
    /\ categories # {}
    /\ start_year <= end_year

HasMessage(kind) == \E m \in 1..Len(messages) : messages[m].kind = kind

\* the message shown last is of this kind, and the only one of this kind
LastAndOnly(kind) ==
    /\ messages # <<>>
    /\ messages[Len(messages)].kind = kind
    /\ Cardinality({ m \in 1..Len(messages) : messages[m].kind = kind }) = 1

(* ------------------------------- claims -------------------------------- *)

\* C1: the search is invoked only when the stripped query is non-empty, the
\* category set is non-empty and start_year <= end_year; a run on inputs that
\* break one of the checks shows an error and is back at Idle with no search
\* and no download made.
C1_SearchOnlyAfterValidation ==
    /\ searchCalls > 0 => ValidInputs
    /\ (search_button /\ pc # "Validating" /\ ~ValidInputs) =>
          /\ pc = "Idle"
          /\ LastAndOnly("error")
          /\ searchCalls = 0
          /\ downloadCalls = <<>>
          /\ remote = <<>>

\* C1 witness: a run with a selected-categories set that is empty has ended
\* at Idle with the error shown, and the query itself was fine.
C1_Witness ==
    /\ pc = "Idle"
    /\ search_button
    /\ categories = {}
    /\ Strip(query) # <<>>
    /\ HasMessage("error")
    /\ searchCalls = 0

\* C2: at every point of the collection loop and after it, each record of the
\* list has a category tag in the requested set and a year within
\* [start_year, end_year].
C2_RecordsPassFilter ==
    \A i \in 1..Len(papers) :
        /\ TagsOf(papers[i].categories) \cap categories # {}
        /\ start_year <= papers[i].year
        /\ papers[i].year <= end_year

\* C2 witness: the loop is running, it has kept a record and has rejected a
\* raw result.
C2_Witness ==
    /\ pc = "Searching"
    /\ Len(papers) >= 1
    /\ \E i \in 1..idx : ~Passes(i)

\* C4: the list of records never holds more than max_results records, in the
\* loop and after it, for every max_results of the slider.
C4_AtMostMaxResults ==
    /\ max_results \in SliderMin..SliderMax
    /\ Len(papers) <= max_results

\* C4 witness: the search returned max_results records, with one more result
\* that passes the filter left out.
C4_Witness ==
    /\ pc = "Searched"
    /\ Len(papers) = max_results
    /\ Cardinality({ i \in 1..Len(remote) : Passes(i) }) > max_results

\* C5 (as claimed): the ids of one result set are non-empty and pairwise
\* distinct, and no file is written twice during one run.
C5_UniqueIds ==
    /\ \A i \in 1..Len(papers) : papers[i].id # <<>>
    /\ \A i, j \in 1..Len(papers) : i # j => papers[i].id # papers[j].id
    /\ \A i, j \in 1..Len(writes) : i # j => writes[i] # writes[j]

\* C6 (as claimed): the export's header is id, title, year, categories,
\* abstract, download_status, it has one row per row of the displayed table
\* and the same set of ids.
C6_ExportHeaderAndIds ==
    export.offered =>
        LET parsed == ParseCsv(export.text)
        IN /\ parsed[1] = [k \in 1..Len(DisplayColumns) |-> <<DisplayColumns[k]>>]
           /\ Len(parsed) - 1 = Len(table.rows)
           /\ ExportIds(parsed) = TableIds

\* C7 (as claimed): the summary's count of successful downloads is the number
\* of records whose download attempt succeeded.
C7_SummaryCountsSuccesses ==
    summary.shown =>
        /\ summary.found = Len(papers)
        /\ summary.downloaded = Cardinality(succeeded)

\* C8: the download stage handles the records one by one in result order, each
\* once, whatever the earlier outcomes were; the table, export and summary come
\* only after the last record, and then every status is "No PDF URL",
\* "Downloaded (<size> KB)" or "Failed: <reason>".
C8_EveryRecordProcessedOnce ==
    /\ processed = [k \in 1..Len(processed) |-> k]
    /\ Len(processed) <= Len(papers)
    /\ di = Len(processed)
    /\ \A i \in 1..Len(papers) :
          IF i <= Len(processed)
          THEN IsFinalStatus(papers[i].download_status)
          ELSE papers[i].download_status = NotDownloaded
    /\ (table.built \/ export.offered \/ summary.shown) =>
          /\ Len(processed) = Len(papers)
          /\ Len(table.rows) = Len(papers)
          /\ \A i \in 1..Len(papers) :
                /\ IsFinalStatus(table.rows[i][6])
                /\ table.rows[i][6] = papers[i].download_status

\* C8 witness: the table is shown for a run whose first download failed and
\* whose second download succeeded.
C8_Witness ==
    /\ table.built
    /\ Len(papers) >= 2
    /\ IsFailedStatus(papers[1].download_status)
    /\ IsDownloadedStatus(papers[2].download_status)

\* C9: once an error was raised in the search, the list is empty, the error is
\* shown, and the run makes no download, builds no table and offers no export.
C9_SearchErrorHalts ==
    raised =>
        /\ papers = <<>>
        /\ \E m \in 1..Len(messages) :
              messages[m].kind = "error" /\ Head(messages[m].text) = "Error querying arXiv: "
        /\ pc \in {"Searched", "Idle"}
        /\ downloadCalls = <<>>
        /\ processed = <<>>
        /\ writes = <<>>
        /\ ~table.built
        /\ ~export.offered
        /\ ~summary.shown

\* C9 witness: the run is back at Idle after an error raised when a raw result
\* had already been accepted.
C9_Witness ==
    /\ raised
    /\ pc = "Idle"
    /\ \E i \in 1..idx : Passes(i)

\* C10: a search that returns no record without raising goes to the no-results
\* message and Idle: the download stage is never entered, download_pdf is never
\* called, no file is written, no table is built and no export is offered.
C10_ZeroResultsSkipDownloading ==
    (searchCalls > 0 /\ ~raised /\ papers = <<>>) =>
        /\ pc \in {"Searching", "Searched", "Idle"}
        /\ downloadCalls = <<>>
        /\ processed = <<>>
        /\ writes = <<>>
        /\ ~table.built
        /\ ~export.offered
        /\ ~summary.shown
        /\ pc = "Idle" =>
              /\ LastAndOnly("warning")
              /\ messages[Len(messages)].text = <<"No papers found matching your criteria.">>
              /\ ~HasMessage("success")

\* C10 witness: a valid search over a remote sequence with results, none of
\* which matched, has ended at Idle with the no-results message.
C10_Witness ==
    /\ pc = "Idle"
    /\ searchCalls = 1
    /\ ~raised
    /\ papers = <<>>
    /\ Len(remote) >= 1
    /\ HasMessage("warning")

====
